---- MODULE Spec2Model ----
(***************************************************************************)
(* The dashboard controller of web/js/app.js: the startup handler, the     *)
(* index loader, the daily detail loader, the news renderer, the chart     *)
(* updater and the date navigation.                                        *)
(*                                                                         *)
(* JavaScript runs one job at a time.  A step of the model is one job: the *)
(* code that runs from an event (a click, a settled fetch, a resumed       *)
(* await) up to the next await.  The awaits of the code are the only       *)
(* places where another job can run in between.                            *)
(*                                                                         *)
(* Strings that are rendered into HTML are sequences of one-character      *)
(* strings; the literal pieces of the templates are single longer strings, *)
(* so a fragment (an innerHTML value) is a sequence of strings.  The       *)
(* Chinese literals of the source are written in ASCII: the importance     *)
(* levels are "H", "M" and "L".                                            *)
(***************************************************************************)
EXTENDS Integers, Sequences, FiniteSets, TLC

\* Bounds of the model.
MaxDates == 3
MaxInflight == 2
MaxTextLen == 2
MaxByDate == 16

\* The number of by_date entries the trend chart takes: slice(0, 14).
TrendWindow == 14

\* JavaScript's null and undefined.
Null == "null"
Undefined == "undefined"

\* A faulty variant: the guard of loadDailyNews lets every value pass.
FalsyNever(v) == FALSE

\* `!v` for a string, null or undefined: the guard `if (!date) return`.
Falsy(v) == v \in {Null, Undefined, ""}

Range(s) == {s[k] : k \in 1..Len(s)}

\* Array.prototype.indexOf: the 0-based index of the first element equal to
\* x, or -1.
RECURSIVE indexOfFrom(_, _, _)
indexOfFrom(arr, x, j) ==
    IF j >= Len(arr) THEN -1
    ELSE IF arr[j + 1] = x THEN j
    ELSE indexOfFrom(arr, x, j + 1)

indexOf(arr, x) == indexOfFrom(arr, x, 0)

\* arr[j] with a 0-based index: undefined outside the array.
at(arr, j) == IF j \in 0..(Len(arr) - 1) THEN arr[j + 1] ELSE Undefined

\* Array.prototype.slice(0, n) and Array.prototype.reverse.
slice0(arr, n) == SubSeq(arr, 1, IF Len(arr) < n THEN Len(arr) ELSE n)

reverse(arr) == [k \in 1..Len(arr) |-> arr[Len(arr) + 1 - k]]

RECURSIVE join(_)
join(parts) == IF parts = <<>> THEN <<>> ELSE Head(parts) \o join(Tail(parts))

(***************************************************************************)
(* escapeHtml: the text is assigned to a div's textContent and read back   *)
(* as innerHTML, which serialises a text node with & < > replaced by       *)
(* their entities (quotes are left as they are in a text node).            *)
(***************************************************************************)
serializeChar(c) ==
    CASE c = "&" -> <<"&", "a", "m", "p", ";">>
      [] c = "<" -> <<"&", "l", "t", ";">>
      [] c = ">" -> <<"&", "g", "t", ";">>
      [] OTHER -> <<c>>

\* A faulty variant: the text is returned as it is.
escapeHtmlRaw(text) == text

escapeHtml(text) ==
    IF text = <<>> THEN <<>>
    ELSE join([k \in 1..Len(text) |-> serializeChar(text[k])])

\* getImportanceClass
getImportanceClass(importance) ==
    CASE importance = "H" -> "high"
      [] importance = "M" -> "medium"
      [] importance = "L" -> "low"
      [] OTHER -> "medium"

\* The pieces of the templates of renderNews.
TitleOpen == "<h4 class=\"news-title\">"
TitleClose == "</h4>"
SummaryOpen == "<p class=\"news-summary\">"
SummaryClose == "</p>"
SourceOpen == "<span>src "
SourceClose == "</span>"
NotAvailable == <<"N", "/", "A">>

\* The template of one news item (the body of the map callback).
renderItem(news) ==
    LET importanceClass == getImportanceClass(news.importance)
        importanceText == IF news.importance = "" THEN "M" ELSE news.importance
        tags == join([k \in 1..Len(news.tags) |->
                        <<"<span class=\"tag\">">> \o news.tags[k] \o <<"</span>">>])
    IN  <<"<div class=\"news-item ", importanceClass, "\">",
          "<div class=\"news-header\">",
          "<span class=\"news-index\">", ToString(news.index), "</span>",
          TitleOpen>>
        \o escapeHtml(news.title)
        \o <<TitleClose,
             "<span class=\"importance-badge ", importanceClass, "\">",
             importanceText, "</span>",
             "</div>",
             SummaryOpen>>
        \o escapeHtml(news.summary)
        \o <<SummaryClose,
             "<div class=\"news-meta\">",
             SourceOpen>>
        \o escapeHtml(IF news.source = <<>> THEN NotAvailable ELSE news.source)
        \o <<SourceClose>>
        \o (IF news.url # <<>>
            THEN <<"<a href=\"">> \o news.url \o <<"\" target=\"_blank\">link</a>">>
            ELSE <<>>)
        \o <<"</div>">>
        \o (IF tags # <<>>
            THEN <<"<div class=\"news-tags\">">> \o tags \o <<"</div>">>
            ELSE <<>>)
        \o <<"</div>">>

\* The placeholder renderNews writes for an empty list.
EmptyCategory(category) ==
    <<"<div class=\"empty-state\">", "no news in category ", category, "</div>">>

\* renderNews: the innerHTML it assigns to the container.
renderNews(newsList, category) ==
    IF newsList = <<>> THEN EmptyCategory(category)
    ELSE join([k \in 1..Len(newsList) |-> renderItem(newsList[k])])

\* The placeholders of loadDailyNews and showEmptyState, and the innerHTML
\* showError gives both panels.
LoadingHtml == <<"<div class=\"loading\">loading</div>">>
EmptyHtml == <<"<div class=\"empty-state\">", "no data, wait for the update", "</div>">>
showError(message) == <<"<div class=\"empty-state\">", message, "</div>">>
LoadFailedMessage == "loading failed, reload the page"


(***************************************************************************)
(* The data: the dates of the manifest, the date loadDemoData takes from   *)
(* the clock, the static files the server holds.                           *)
(***************************************************************************)
AllDates == {"2024-01-01", "2024-01-02", "2024-01-03"}
Today == "2024-01-04"

DateLists == UNION {[1..n -> AllDates] : n \in 0..MaxDates}

\* A JSON object is a record that has the fields that are present; {} is <<>>.
EmptyObject == <<>>

\* The null of state.statistics, state.trendChart and state.importanceChart.
NullObject == [null |-> TRUE]

\* The stat counters before updateStatistics has written them.
Unwritten == [unwritten |-> TRUE]

SampleStatistics ==
    [total_days |-> 3, total_domestic |-> 7, total_international |-> 6,
     by_importance |-> [H |-> 4, M |-> 4, L |-> 2],
     by_date |-> <<[date |-> "2024-01-03", domestic |-> 3, international |-> 2],
                   [date |-> "2024-01-02", domestic |-> 4, international |-> 4]>>]

\* The bodies index.json can have.
Manifests ==
    {[dates |-> ds, statistics |-> SampleStatistics, last_updated |-> "2024-01-03 08:00"] :
        ds \in DateLists}
    \cup {[dates |-> ds] : ds \in {<<"2024-01-02", "2024-01-01">>}}
    \cup {EmptyObject}

NewsOf(date, n, name) ==
    [index |-> n, title |-> <<name, " ", date>>, summary |-> <<"summary of ", name>>,
     importance |-> "H", source |-> <<"agency">>, url |-> <<>>, tags |-> << <<"ai">> >>]

\* The daily files of the server: one date has an empty file.
SampleFiles ==
    [d \in AllDates \cup {Today} |->
        IF d = "2024-01-03" THEN EmptyObject
        ELSE [domestic |-> <<NewsOf(d, 1, "home")>>,
              international |-> <<NewsOf(d, 1, "world")>>,
              summary |-> d]]

\* The built-in news of loadDemoData.
DemoNews ==
    [domestic |->
        <<[index |-> 1, title |-> <<"AutoGLM">>, summary |-> <<"demo 1">>, importance |-> "H",
           source |-> <<"Zhipu">>, url |-> <<>>, tags |-> << <<"t1">>, <<"t2">>, <<"t3">> >>],
          [index |-> 2, title |-> <<"Lingguang">>, summary |-> <<"demo 2">>, importance |-> "H",
           source |-> <<"Ant">>, url |-> <<>>, tags |-> << <<"t4">>, <<"t5">>, <<"t6">> >>]>>,
     international |->
        <<[index |-> 1, title |-> <<"H200">>, summary |-> <<"demo 3">>, importance |-> "H",
           source |-> <<"Reuters">>, url |-> <<>>, tags |-> << <<"t7">>, <<"t8">>, <<"t9">> >>],
          [index |-> 2, title |-> <<"o3">>, summary |-> <<"demo 4">>, importance |-> "H",
           source |-> <<"OpenAI">>, url |-> <<>>, tags |-> << <<"t10">>, <<"t11">>, <<"t12">> >>]>>,
     summary |-> "demo summary"]

DemoStatistics ==
    [total_days |-> 1, total_domestic |-> 5, total_international |-> 5,
     by_importance |-> [H |-> 4, M |-> 4, L |-> 2],
     by_date |-> <<[date |-> Today, domestic |-> 5, international |-> 5]>>]

(***************************************************************************)
(* The state.                                                              *)
(*   pc               where the DOMContentLoaded handler is                *)
(*   currentDate, dates, statistics, trendChart, importanceChart           *)
(*                    the fields of `state`                                *)
(*   dateSelect       the #date-select element: the values of its options  *)
(*                    (their labels are left out) and its value            *)
(*   domesticNews, internationalNews                                       *)
(*                    the innerHTML of the two news panels                 *)
(*   dailySummary, lastUpdated, statCounters                               *)
(*                    the text of #daily-summary, of #last-updated and of  *)
(*                    the four stat counters                               *)
(*   listeners        whether initEventListeners has run                   *)
(*   indexFetch       the request for index.json: pending, or how it ended *)
(*   inflight         the requests loadDailyNews has issued and that have  *)
(*                    not ended, oldest first; stage says which await the  *)
(*                    call is at, awaited whether the startup handler      *)
(*                    awaits the call                                      *)
(*   server           the daily files                                      *)
(***************************************************************************)
VARIABLES pc, currentDate, dates, statistics, trendChart, importanceChart,
          dateSelect, domesticNews, internationalNews, dailySummary, lastUpdated,
          statCounters, listeners, indexFetch, inflight, server

vars == <<pc, currentDate, dates, statistics, trendChart, importanceChart,
          dateSelect, domesticNews, internationalNews, dailySummary, lastUpdated,
          statCounters, listeners, indexFetch, inflight, server>>

\* The panels as index.html has them, before any script writes them.
PageHtml == <<>>

\* `let state = {...}` and the page before DOMContentLoaded's handler has
\* passed its first await: loadIndex has called fetch.
InitState ==
    /\ pc = "loadIndex fetch"
    /\ currentDate = Null
    /\ dates = <<>>
    /\ statistics = NullObject
    /\ trendChart = NullObject
    /\ importanceChart = NullObject
    /\ dateSelect = [options |-> <<>>, value |-> ""]
    /\ domesticNews = PageHtml
    /\ internationalNews = PageHtml
    /\ dailySummary = ""
    /\ lastUpdated = ""
    /\ statCounters = Unwritten
    /\ listeners = FALSE
    /\ indexFetch = [outcome |-> "pending"]
    /\ inflight = <<>>

Init == InitState /\ server = SampleFiles


(***************************************************************************)
(* The chart updater and the counters.                                     *)
(***************************************************************************)
\* `o.f || dflt` for a number field.
orZero(o, f) == IF f \in DOMAIN o /\ o[f] # 0 THEN o[f] ELSE 0

\* formatDateShort: month/day of the date (an unknown date gives NaN/NaN).
formatDateShort(dateStr) ==
    CASE dateStr = "2024-01-01" -> "1/1"
      [] dateStr = "2024-01-02" -> "1/2"
      [] dateStr = "2024-01-03" -> "1/3"
      [] dateStr = "2024-01-04" -> "1/4"
      [] OTHER -> "NaN/NaN"

\* A faulty variant: the window is taken from the end of by_date.
trendWindowLast(byDate) ==
    reverse(SubSeq(byDate,
                   IF Len(byDate) > TrendWindow THEN Len(byDate) - TrendWindow + 1 ELSE 1,
                   Len(byDate)))

\* byDate.slice(0, 14).reverse()
trendWindow(byDate) == reverse(slice0(byDate, TrendWindow))

\* initTrendChart: the data of the chart it creates.
initTrendChart(stats) ==
    LET byDate == IF "by_date" \in DOMAIN stats THEN stats.by_date ELSE <<>>
        win == trendWindow(byDate)
        labels == [k \in 1..Len(win) |-> formatDateShort(win[k].date)]
        domesticData == [k \in 1..Len(win) |-> orZero(win[k], "domestic")]
        internationalData == [k \in 1..Len(win) |-> orZero(win[k], "international")]
    IN  [type |-> "line",
         labels |-> IF Len(labels) > 0 THEN labels ELSE <<"no data">>,
         domestic |-> IF Len(domesticData) > 0 THEN domesticData ELSE <<0>>,
         international |-> IF Len(internationalData) > 0 THEN internationalData ELSE <<0>>]

\* initImportanceChart: the data of the chart it creates.
initImportanceChart(stats) ==
    LET byImportance == IF "by_importance" \in DOMAIN stats THEN stats.by_importance
                        ELSE [H |-> 0, M |-> 0, L |-> 0]
    IN  [type |-> "doughnut",
         data |-> <<orZero(byImportance, "H"), orZero(byImportance, "M"),
                    orZero(byImportance, "L")>>]

\* updateStatistics: the text of the four counters.
updateStatistics(stats) ==
    [domestic |-> orZero(stats, "total_domestic"),
     international |-> orZero(stats, "total_international"),
     days |-> orZero(stats, "total_days"),
     high |-> IF "by_importance" \in DOMAIN stats THEN orZero(stats.by_importance, "H") ELSE 0]

\* initCharts(); updateStatistics(), the end of the startup handler, with dom
\* and intl the panels at that point.  `new Chart` throws when the chart
\* library is not there: the handler's catch then calls showError.
initChartsAndStatistics(chartLib, dom, intl) ==
    IF chartLib
    THEN /\ trendChart' = initTrendChart(statistics)
         /\ importanceChart' = initImportanceChart(statistics)
         /\ statCounters' = updateStatistics(statistics)
         /\ domesticNews' = dom
         /\ internationalNews' = intl
         /\ pc' = "done"
    ELSE /\ UNCHANGED <<trendChart, importanceChart, statCounters>>
         /\ domesticNews' = showError(LoadFailedMessage)
         /\ internationalNews' = showError(LoadFailedMessage)
         /\ pc' = "failed"

(***************************************************************************)
(* The index loader.                                                       *)
(***************************************************************************)
\* `selector.value = v`: the option with that value is selected, none when
\* there is no such option.
selectValue(options, v) == IF v \in Range(options) THEN v ELSE ""

\* A faulty variant: the last date is made the current one.
firstDateLast(ds) == ds[Len(ds)]

\* state.dates[0] of populateDateSelector
firstDate(ds) == ds[1]

\* populateDateSelector, for state.dates = ds
populateDateSelector(ds) ==
    /\ dateSelect' = [options |-> ds,
                      value |-> IF Len(ds) > 0 THEN selectValue(ds, firstDate(ds)) ELSE ""]
    /\ currentDate' = IF Len(ds) > 0 THEN firstDate(ds) ELSE currentDate

\* loadDemoData
loadDemoData ==
    /\ dates' = <<Today>>
    /\ statistics' = DemoStatistics
    /\ populateDateSelector(<<Today>>)
    /\ domesticNews' = renderNews(DemoNews.domestic, "domestic")
    /\ internationalNews' = renderNews(DemoNews.international, "international")
    /\ dailySummary' = DemoNews.summary

\* loadIndex: fetch rejects (a network error) or the status is not ok.
IndexFetchFails ==
    /\ pc = "loadIndex fetch"
    /\ \E cause \in {"network error", "not ok"} : indexFetch' = [outcome |-> cause]
    /\ loadDemoData
    /\ pc' = "after loadIndex"
    /\ UNCHANGED <<trendChart, importanceChart, lastUpdated, statCounters, listeners,
                   inflight, server>>

\* loadIndex: the response is ok, the body is awaited.
IndexFetchOk ==
    /\ pc = "loadIndex fetch"
    /\ pc' = "loadIndex json"
    /\ UNCHANGED <<currentDate, dates, statistics, trendChart, importanceChart,
                   dateSelect, domesticNews, internationalNews, dailySummary, lastUpdated,
                   statCounters, listeners, indexFetch, inflight, server>>

\* loadIndex: response.json() rejects, the body is no JSON.
IndexJsonFails ==
    /\ pc = "loadIndex json"
    /\ indexFetch' = [outcome |-> "malformed"]
    /\ loadDemoData
    /\ pc' = "after loadIndex"
    /\ UNCHANGED <<trendChart, importanceChart, lastUpdated, statCounters, listeners,
                   inflight, server>>

\* loadIndex: the manifest has arrived.
IndexJsonOk ==
    /\ pc = "loadIndex json"
    /\ \E data \in Manifests :
        LET ds == IF "dates" \in DOMAIN data THEN data.dates ELSE <<>>
        IN  /\ indexFetch' = [outcome |-> "ok", data |-> data]
            /\ dates' = ds
            /\ statistics' = IF "statistics" \in DOMAIN data THEN data.statistics
                             ELSE EmptyObject
            /\ lastUpdated' = IF "last_updated" \in DOMAIN data /\ data.last_updated # ""
                              THEN data.last_updated ELSE "unknown"
            /\ populateDateSelector(ds)
    /\ pc' = "after loadIndex"
    /\ UNCHANGED <<trendChart, importanceChart, domesticNews, internationalNews,
                   dailySummary, statCounters, listeners, inflight, server>>

(***************************************************************************)
(* The daily detail loader.                                                *)
(***************************************************************************)
\* A faulty variant: the panels are left as they are when the fetch is issued.
loadingPanelKept(panel) == panel

\* The innerHTML loadDailyNews gives a panel before it fetches.
loadingPanel(panel) == LoadingHtml

\* loadDailyNews(date) up to its first await; awaited says whether the caller
\* awaits the call.  What it does not touch, and pc, are the caller's.
loadDailyNews(date, awaited) ==
    IF Falsy(date)
    THEN UNCHANGED <<currentDate, dateSelect, domesticNews, internationalNews, inflight>>
    ELSE /\ currentDate' = date
         /\ dateSelect' = [dateSelect EXCEPT !.value = selectValue(dateSelect.options, date)]
         /\ domesticNews' = loadingPanel(domesticNews)
         /\ internationalNews' = loadingPanel(internationalNews)
         /\ inflight' = Append(inflight,
                               [date |-> date, stage |-> "fetch", awaited |-> awaited])


\* A faulty variant: a failed daily load falls back to the demo news, as loadIndex does.
showDemoPanel(category) == renderNews(DemoNews[category], category)

\* showEmptyState: the innerHTML it gives the panel of a category.
showEmptyState(category) == EmptyHtml

\* The handler can run only when the job queue holds no continuation of the
\* startup handler: a resumed await runs before the next event.
NoJobReady == pc \notin {"after loadIndex", "after loadDailyNews"}

remove(seq, i) == SubSeq(seq, 1, i - 1) \o SubSeq(seq, i + 1, Len(seq))

\* The call of loadDailyNews that issued request i returns.
endCall(i) ==
    /\ inflight' = remove(inflight, i)
    /\ pc' = IF inflight[i].awaited THEN "after loadDailyNews" ELSE pc

\* The catch of loadDailyNews.
dailyFailed(i) ==
    /\ domesticNews' = showEmptyState("domestic")
    /\ internationalNews' = showEmptyState("international")
    /\ endCall(i)
    /\ UNCHANGED <<currentDate, dates, statistics, trendChart, importanceChart, dateSelect,
                   dailySummary, lastUpdated, statCounters, listeners, indexFetch, server>>

\* loadDailyNews: fetch rejects or the status is not ok.
DailyFetchFails(i) ==
    /\ NoJobReady
    /\ inflight[i].stage = "fetch"
    /\ dailyFailed(i)

\* loadDailyNews: the response is ok, the body is awaited.
DailyFetchOk(i) ==
    /\ NoJobReady
    /\ inflight[i].stage = "fetch"
    /\ inflight' = [inflight EXCEPT ![i].stage = "json"]
    /\ UNCHANGED <<pc, currentDate, dates, statistics, trendChart, importanceChart,
                   dateSelect, domesticNews, internationalNews, dailySummary, lastUpdated,
                   statCounters, listeners, indexFetch, server>>

\* loadDailyNews: response.json() rejects.
DailyJsonFails(i) ==
    /\ NoJobReady
    /\ inflight[i].stage = "json"
    /\ dailyFailed(i)

\* A faulty variant: a response for a date that is no longer the current one is dropped.
renderedIfCurrent(panel, html, date) == IF date = currentDate THEN html ELSE panel

\* What the daily file of `date` leaves in a panel that held `panel`: its news
\* rendered as `html`; the date is not compared with state.currentDate.
renderedDaily(panel, html, date) == html

\* loadDailyNews: the daily file has arrived and is rendered.
DailyJsonOk(i) ==
    /\ NoJobReady
    /\ inflight[i].stage = "json"
    /\ LET data == server[inflight[i].date]
       IN  /\ domesticNews' =
                renderedDaily(domesticNews,
                              renderNews(IF "domestic" \in DOMAIN data THEN data.domestic
                                         ELSE <<>>,
                                         "domestic"),
                              inflight[i].date)
           /\ internationalNews' =
                renderedDaily(internationalNews,
                              renderNews(IF "international" \in DOMAIN data
                                         THEN data.international ELSE <<>>,
                                         "international"),
                              inflight[i].date)
           /\ dailySummary' = IF "summary" \in DOMAIN data /\ data.summary # ""
                              THEN data.summary ELSE "no summary"
    /\ endCall(i)
    /\ UNCHANGED <<currentDate, dates, statistics, trendChart, importanceChart, dateSelect,
                   lastUpdated, statCounters, listeners, indexFetch, server>>

(***************************************************************************)
(* The startup handler after its awaits.                                   *)
(***************************************************************************)
\* A faulty variant: the handler does not await the first daily load.
firstLoadNotAwaited(date) == "after loadDailyNews"

\* Where the handler is after it has called loadDailyNews(state.dates[0]): at
\* the await of the call, which is over at once when the call returned early.
firstLoadPc(date) == IF Falsy(date) THEN "after loadDailyNews" ELSE "loadDailyNews"

\* After `await loadIndex()`: initEventListeners, then the first daily load,
\* or with no dates showEmptyState, initCharts and updateStatistics.
AfterLoadIndex ==
    /\ pc = "after loadIndex"
    /\ listeners' = TRUE
    /\ IF Len(dates) > 0
       THEN /\ loadDailyNews(dates[1], TRUE)
            /\ pc' = firstLoadPc(dates[1])
            /\ UNCHANGED <<trendChart, importanceChart, statCounters>>
       ELSE /\ \E chartLib \in BOOLEAN :
                    initChartsAndStatistics(chartLib, showEmptyState("domestic"),
                                            showEmptyState("international"))
            /\ UNCHANGED <<currentDate, dateSelect, inflight>>
    /\ UNCHANGED <<dates, statistics, dailySummary, lastUpdated, indexFetch, server>>

\* After `await loadDailyNews(state.dates[0])`: initCharts, updateStatistics.
AfterLoadDailyNews ==
    /\ pc = "after loadDailyNews"
    /\ \E chartLib \in BOOLEAN :
            initChartsAndStatistics(chartLib, domesticNews, internationalNews)
    /\ UNCHANGED <<currentDate, dates, statistics, dateSelect, dailySummary, lastUpdated,
                   listeners, indexFetch, inflight, server>>

(***************************************************************************)
(* The date navigation.                                                    *)
(***************************************************************************)
\* The handler makes no call of loadDailyNews.
NoCall == "no call"

\* A faulty variant: the previous-date button moves to the newer date.
prevDateNewer ==
    LET currentIndex == indexOf(dates, currentDate)
    IN  IF currentIndex > 0 THEN at(dates, currentIndex - 1) ELSE NoCall

\* The click handler of #prev-date: the argument it calls loadDailyNews with.
prevDateTarget ==
    LET currentIndex == indexOf(dates, currentDate)
    IN  IF currentIndex < Len(dates) - 1 THEN at(dates, currentIndex + 1) ELSE NoCall

\* The click handler of #next-date: the argument it calls loadDailyNews with.
nextDateTarget ==
    LET currentIndex == indexOf(dates, currentDate)
    IN  IF currentIndex > 0 THEN at(dates, currentIndex - 1) ELSE NoCall

\* An event handler that calls loadDailyNews(target), or makes no call.
navigate(target) ==
    /\ listeners
    /\ NoJobReady
    /\ Len(inflight) < MaxInflight
    /\ IF target = NoCall
       THEN UNCHANGED <<currentDate, dateSelect, domesticNews, internationalNews, inflight>>
       ELSE loadDailyNews(target, FALSE)
    /\ UNCHANGED <<pc, dates, statistics, trendChart, importanceChart, dailySummary,
                   lastUpdated, statCounters, listeners, indexFetch, server>>

\* The values a change event of #date-select can carry.
pickerValues == IF dateSelect.options = <<>> THEN {""} ELSE Range(dateSelect.options)

DateSelectChange == \E v \in pickerValues : navigate(v)

PrevDate == navigate(prevDateTarget)

NextDate == navigate(nextDateTarget)

Next ==
    \/ IndexFetchFails
    \/ IndexFetchOk
    \/ IndexJsonFails
    \/ IndexJsonOk
    \/ AfterLoadIndex
    \/ AfterLoadDailyNews
    \/ \E i \in 1..Len(inflight) : DailyFetchFails(i)
    \/ \E i \in 1..Len(inflight) : DailyFetchOk(i)
    \/ \E i \in 1..Len(inflight) : DailyJsonFails(i)
    \/ \E i \in 1..Len(inflight) : DailyJsonOk(i)
    \/ DateSelectChange
    \/ PrevDate
    \/ NextDate

Spec == Init /\ [][Next]_vars

(***************************************************************************)
(* The chart updater on its own: the startup handler is about to call      *)
(* initCharts, with a by_date of any length up to MaxByDate.               *)
(***************************************************************************)
ByDateDates == <<"2024-01-01", "2024-01-02", "2024-01-03", "2024-01-04">>

\* Entry k of a by_date: the counts are k and 100 + k (both present), the
\* domestic count is missing, both counts are 0, or the counts are in the
\* fields domestic_count and international_count.
ByDateEntry(kind, k) ==
    LET date == ByDateDates[(k % 4) + 1]
    IN  CASE kind = "both" -> [date |-> date, domestic |-> k, international |-> 100 + k]
          [] kind = "no domestic" -> [date |-> date, international |-> 100 + k]
          [] kind = "zero" -> [date |-> date, domestic |-> 0, international |-> 0]
          [] OTHER -> [date |-> date, domestic_count |-> k, international_count |-> 100 + k]

ByDateInputs ==
    {[k \in 1..n |-> ByDateEntry(kind, k)] :
        n \in 0..MaxByDate, kind \in {"both", "no domestic", "zero", "count fields"}}

TrendInit ==
    /\ pc = "after loadDailyNews"
    /\ currentDate = "2024-01-01"
    /\ dates = <<"2024-01-01">>
    /\ \E bd \in ByDateInputs :
        /\ statistics = [by_date |-> bd]
        /\ indexFetch = [outcome |-> "ok",
                         data |-> [dates |-> <<"2024-01-01">>,
                                   statistics |-> [by_date |-> bd]]]
    /\ trendChart = NullObject
    /\ importanceChart = NullObject
    /\ dateSelect = [options |-> <<"2024-01-01">>, value |-> "2024-01-01"]
    /\ domesticNews = EmptyHtml
    /\ internationalNews = EmptyHtml
    /\ dailySummary = ""
    /\ lastUpdated = "unknown"
    /\ statCounters = Unwritten
    /\ listeners = TRUE
    /\ inflight = <<>>
    /\ server = SampleFiles

TrendNext == AfterLoadDailyNews

TrendSpec == TrendInit /\ [][TrendNext]_vars

(***************************************************************************)
(* The news renderer on its own: the daily file of the selected date has   *)
(* been fetched and its body is awaited; its first domestic item has any   *)
(* title, summary, source and tag over Alphabet.                           *)
(***************************************************************************)
Alphabet == {"a", "<", ">", "&", "\""}

Texts(n) == UNION {[1..m -> Alphabet] : m \in 0..n}

RenderItems ==
    {[index |-> 1, title |-> t, summary |-> s, importance |-> imp, source |-> src,
      url |-> <<>>, tags |-> IF src = <<>> THEN <<>> ELSE <<src>>] :
        t \in Texts(MaxTextLen), s \in Texts(1), src \in {<<>>, <<"<">>}, imp \in {"", "L"}}

RenderInit ==
    /\ pc = "done"
    /\ currentDate = "2024-01-01"
    /\ dates = <<"2024-01-01">>
    /\ statistics = EmptyObject
    /\ indexFetch = [outcome |-> "ok", data |-> [dates |-> <<"2024-01-01">>]]
    /\ trendChart = initTrendChart(EmptyObject)
    /\ importanceChart = initImportanceChart(EmptyObject)
    /\ statCounters = updateStatistics(EmptyObject)
    /\ dateSelect = [options |-> <<"2024-01-01">>, value |-> "2024-01-01"]
    /\ domesticNews = LoadingHtml
    /\ internationalNews = LoadingHtml
    /\ dailySummary = ""
    /\ lastUpdated = "unknown"
    /\ listeners = TRUE
    /\ inflight = <<[date |-> "2024-01-01", stage |-> "json", awaited |-> FALSE]>>
    /\ \E item \in RenderItems :
        server = [d \in AllDates \cup {Today} |->
                    [domestic |-> <<item>>,
                     international |-> <<NewsOf(d, 1, "world"), item>>,
                     summary |-> ""]]

RenderNext == \E i \in 1..Len(inflight) : DailyJsonOk(i)

RenderSpec == RenderInit /\ [][RenderNext]_vars

(***************************************************************************)
(* The properties.                                                         *)
(***************************************************************************)
\* The 1-based position of the first occurrence of x in arr, 0 when absent.
Position(arr, x) ==
    LET at_x == {k \in 1..Len(arr) : arr[k] = x}
    IN  IF at_x = {} THEN 0 ELSE CHOOSE k \in at_x : \A m \in at_x : k <= m

\* This step is a call loadDailyNews(d) from an event handler.
Requested(d) ==
    /\ currentDate' = d
    /\ inflight' = Append(inflight, [date |-> d, stage |-> "fetch", awaited |-> FALSE])

BothPanels(html) == domesticNews = html /\ internationalNews = html

BothPanelsNext(html) == domesticNews' = html /\ internationalNews' = html

\* C1: navigation keeps currentDate inside dates.  With i the position of
\* currentDate in dates (newest first), a click on prev-date requests the
\* next older date, dates[i+1], unless i is the last position, and then it
\* changes nothing; a click on next-date requests the next newer date,
\* dates[i-1], unless i is the first position, and then it changes nothing.
C1_NavigationInBounds ==
    [][LET i == Position(dates, currentDate)
           n == Len(dates)
       IN  /\ \/ currentDate' \in Range(dates')
              \/ dates' = <<>> /\ currentDate' = Null
           /\ PrevDate => IF 1 <= i /\ i < n THEN Requested(dates[i + 1])
                          ELSE UNCHANGED vars
           /\ NextDate => IF i > 1 THEN Requested(dates[i - 1])
                          ELSE UNCHANGED vars]_vars

\* C1 witness: navigation has requested the oldest of three different dates,
\* where a further prev-date click is at the boundary.
C1_Witness ==
    /\ Len(dates) = 3
    /\ Cardinality(Range(dates)) = 3
    /\ currentDate = dates[3]
    /\ inflight # <<>>
    /\ inflight[Len(inflight)] = [date |-> dates[3], stage |-> "fetch", awaited |-> FALSE]

\* C2: in every reachable state state.currentDate is null or an element of
\* state.dates.
C2_CurrentDateInDates == currentDate = Null \/ currentDate \in Range(dates)

\* C2 witness: after navigation, while daily fetches are in flight, the
\* current date is a date of the list other than the newest.
C2_Witness ==
    /\ Len(inflight) = 2
    /\ currentDate \in Range(dates)
    /\ currentDate # dates[1]
    /\ pc = "done"

IndexFailed == indexFetch.outcome \in {"network error", "not ok", "malformed"}

DemoPanels ==
    /\ domesticNews = renderNews(DemoNews.domestic, "domestic")
    /\ internationalNews = renderNews(DemoNews.international, "international")

\* C3: once startup has finished after a failed manifest fetch, state.dates
\* holds exactly today's date and both panels show the demo news.
C3_DemoAfterStartup ==
    (pc = "done" /\ IndexFailed) => (dates = <<Today>> /\ DemoPanels)

\* C4 as stated: whenever a daily fetch is in flight, both panels show the
\* loading placeholder, also when several selections overlap.
C4_LoadingWhileInFlight ==
    (\E i \in 1..Len(inflight) : inflight[i].stage = "fetch") => BothPanels(LoadingHtml)

\* C4 amended: every loadDailyNews call that issues a fetch puts the loading
\* placeholder in both panels, and while daily loads are in flight the
\* placeholder is replaced only by a step in which one of them ends.
C4_LoadingUntilALoadEnds ==
    [][/\ Len(inflight') > Len(inflight) => BothPanelsNext(LoadingHtml)
       /\ (inflight # <<>> /\ BothPanels(LoadingHtml) /\ Len(inflight') >= Len(inflight))
            => BothPanelsNext(LoadingHtml)]_vars

\* C4 witness: two selections overlap and the panels show the placeholder.
C4_Witness ==
    /\ Len(inflight) = 2
    /\ inflight[1].date # inflight[2].date
    /\ BothPanels(LoadingHtml)

\* C5: when the manifest has been fetched, loadIndex leaves state.dates equal
\* to its dates, the selector with exactly these options in the same order,
\* and state.currentDate and the selector's value equal to the first entry.
\* state.dates and the options stay so afterwards.
C5_IndexLoaded ==
    indexFetch.outcome = "ok" =>
        LET ds == IF "dates" \in DOMAIN indexFetch.data THEN indexFetch.data.dates ELSE <<>>
        IN  /\ dates = ds
            /\ dateSelect.options = ds
            /\ Len(dateSelect.options) = Len(ds)
            /\ (pc = "after loadIndex" /\ Len(ds) > 0) =>
                    (currentDate = ds[1] /\ dateSelect.value = ds[1])
            /\ (pc = "after loadIndex" /\ Len(ds) = 0) =>
                    (currentDate = Null /\ dateSelect.value = "")

\* C5 witness: loadIndex has returned with a manifest of three dates whose
\* first and last differ.
C5_Witness ==
    /\ pc = "after loadIndex"
    /\ indexFetch.outcome = "ok"
    /\ Len(dates) = 3
    /\ dates[1] # dates[3]

\* The fetch of request i was rejected or had a bad status: the request ends
\* while it is at the await of fetch.
FetchFailedStep ==
    \E i \in 1..Len(inflight) :
        inflight[i].stage = "fetch" /\ inflight' = remove(inflight, i)

\* C6: when the fetch of a daily file fails, both panels get the "no data"
\* placeholder, not the demo news, and no fetch is issued; a fetch is issued
\* only by a call of loadDailyNews from a handler, one for each call.
C6_NoDemoNoRetry ==
    [][/\ FetchFailedStep =>
            /\ BothPanelsNext(EmptyHtml)
            /\ domesticNews' # renderNews(DemoNews.domestic, "domestic")
            /\ dailySummary' = dailySummary
            /\ Len(inflight') = Len(inflight) - 1
       /\ \A v \in pickerValues \ {""} :
            navigate(v) => Len(inflight') = Len(inflight) + 1
       /\ Len(inflight') > Len(inflight) =>
            /\ DateSelectChange \/ PrevDate \/ NextDate \/ AfterLoadIndex
            /\ Len(inflight') = Len(inflight) + 1
            /\ SubSeq(inflight', 1, Len(inflight)) = inflight
            /\ inflight'[Len(inflight')].date = currentDate'
            /\ inflight'[Len(inflight')].stage = "fetch"]_vars

\* C6 witness: the only daily fetch has failed; the panels show the "no data"
\* placeholder and nothing is in flight.
C6_Witness ==
    /\ pc = "done"
    /\ Len(dates) > 0
    /\ inflight = <<>>
    /\ BothPanels(EmptyHtml)

\* The characters of a fragment between the first `open` and the next `close`.
Between(frag, open, close) ==
    LET from == Position(frag, open)
        rest == SubSeq(frag, from + 1, Len(frag))
        to == Position(rest, close)
    IN  SubSeq(rest, 1, to - 1)

StartsWith(s, prefix) ==
    Len(s) >= Len(prefix) /\ SubSeq(s, 1, Len(prefix)) = prefix

\* What an HTML parser reads from escaped text: the entities decoded.
RECURSIVE Decoded(_)
Decoded(s) ==
    IF s = <<>> THEN <<>>
    ELSE IF StartsWith(s, <<"&", "a", "m", "p", ";">>)
         THEN <<"&">> \o Decoded(SubSeq(s, 6, Len(s)))
    ELSE IF StartsWith(s, <<"&", "l", "t", ";">>)
         THEN <<"<">> \o Decoded(SubSeq(s, 5, Len(s)))
    ELSE IF StartsWith(s, <<"&", "g", "t", ";">>)
         THEN <<">">> \o Decoded(SubSeq(s, 5, Len(s)))
    ELSE <<Head(s)>> \o Decoded(Tail(s))

\* The text is in the fragment in escaped form only: no < or > of it is in
\* the markup, and a parser reads the text back.
Escaped(segment, text) ==
    /\ "<" \notin Range(segment)
    /\ ">" \notin Range(segment)
    /\ Decoded(segment) = text

\* C7: the fragment renderNews writes holds the title and the summary of an
\* item in escaped form only, never as markup.
C7_TitleAndSummaryEscaped ==
    inflight = <<>> =>
        LET news == server[currentDate].domestic[1]
        IN  /\ Escaped(Between(domesticNews, TitleOpen, TitleClose), news.title)
            /\ Escaped(Between(domesticNews, SummaryOpen, SummaryClose), news.summary)

\* C7 witness: an item whose title holds < and > has been rendered.
C7_Witness ==
    /\ inflight = <<>>
    /\ server[currentDate].domestic[1].title = <<"<", ">">>
    /\ "<" \in Range(server[currentDate].domestic[1].summary)
    /\ domesticNews # LoadingHtml

Min(a, b) == IF a < b THEN a ELSE b

Count(entry, field) == IF field \in DOMAIN entry THEN entry[field] ELSE 0

\* The series a chart has to show for a window of by_date that starts at
\* position `first` and has m entries, in reversed order.
SeriesOf(byDate, first, m, field) ==
    IF m = 0 THEN <<0>>
    ELSE [k \in 1..m |-> Count(byDate[first + m - k], field)]

\* C8 as stated: the trend chart plots the last 14 entries of by_date,
\* reversed.
C8_LastFourteen ==
    trendChart # NullObject =>
        LET byDate == statistics.by_date
            m == Min(Len(byDate), TrendWindow)
            first == Len(byDate) - m + 1
        IN  /\ trendChart.domestic = SeriesOf(byDate, first, m, "domestic")
            /\ trendChart.international = SeriesOf(byDate, first, m, "international")

\* C8 amended: the trend chart plots the first 14 entries of by_date (all of
\* them when there are fewer), reversed, the fields domestic and
\* international of each entry with 0 for a missing one; each series is the
\* single value 0 when by_date is empty.
C8_FirstFourteen ==
    trendChart # NullObject =>
        LET byDate == statistics.by_date
            m == Min(Len(byDate), TrendWindow)
        IN  /\ trendChart.domestic = SeriesOf(byDate, 1, m, "domestic")
            /\ trendChart.international = SeriesOf(byDate, 1, m, "international")

\* C8 witness: a chart of a by_date with more than 14 entries.
C8_Witness ==
    /\ trendChart # NullObject
    /\ Len(statistics.by_date) > TrendWindow
    /\ trendChart.domestic[1] = TrendWindow

\* The panels a daily load of date d leaves when its file arrives.
NewsPanelsNext(d) ==
    LET data == server[d]
    IN  /\ domesticNews' =
            renderNews(IF "domestic" \in DOMAIN data THEN data.domestic ELSE <<>>,
                       "domestic")
        /\ internationalNews' =
            renderNews(IF "international" \in DOMAIN data THEN data.international ELSE <<>>,
                       "international")

\* C9: a new selection leaves the earlier requests in flight, and a request
\* whose body is awaited ends by writing its own date's news, or the "no
\* data" placeholder, whatever the current date is: responses are applied in
\* arrival order.
C9_AppliedInArrivalOrder ==
    [][/\ Len(inflight') > Len(inflight) => SubSeq(inflight', 1, Len(inflight)) = inflight
       /\ \A i \in 1..Len(inflight) :
            (inflight[i].stage = "json" /\ inflight' = remove(inflight, i)) =>
                \E j \in 1..Len(inflight) :
                    /\ inflight[j] = inflight[i]
                    /\ NewsPanelsNext(inflight[j].date) \/ BothPanelsNext(EmptyHtml)]_vars

\* C9 witness: nothing is in flight, the current date and the selector's
\* value are B, and the panels show the news of another date A.
C9_Witness ==
    /\ inflight = <<>>
    /\ pc = "done"
    /\ dateSelect.value = currentDate
    /\ \E A \in Range(dates) \ {currentDate} :
        /\ "domestic" \in DOMAIN server[A]
        /\ domesticNews = renderNews(server[A].domestic, "domestic")
        /\ internationalNews = renderNews(server[A].international, "international")
        /\ dailySummary = server[A].summary

FirstLoadPending == \E i \in 1..Len(inflight) : inflight[i].awaited

ChartsOrCountersWritten ==
    trendChart # NullObject \/ importanceChart # NullObject \/ statCounters # Unwritten

\* C10: a chart exists or the counters are written only when the startup
\* handler is through and its first daily load has ended; while that load is
\* pending there are no charts and no counters, although statistics is
\* loaded and the listeners are active.
C10_ChartsAfterFirstLoad ==
    /\ ChartsOrCountersWritten => (pc = "done" /\ ~FirstLoadPending)
    /\ (Len(dates) > 0 /\ pc \in {"loadDailyNews", "after loadDailyNews"}) =>
            (~ChartsOrCountersWritten /\ statistics # NullObject /\ listeners)
    /\ FirstLoadPending <=> pc = "loadDailyNews"

\* C10 witness: the first daily load is still pending after a navigation of
\* the user has been served; there are no charts.
C10_Witness ==
    /\ pc = "loadDailyNews"
    /\ Len(inflight) = 1
    /\ inflight[1].awaited
    /\ inflight[1].stage = "fetch"
    /\ ~BothPanels(LoadingHtml)
    /\ ~ChartsOrCountersWritten
====
